---- MODULE Spec2Model ----
(***************************************************************************)
(* Model of mo_helper.py (model organizer): a configuration document       *)
(* (Mo.yaml, key "tasks") and the task folders directly under the project  *)
(* root, kept in step by add_task, delete_task and move_task.              *)
(*                                                                         *)
(* Strings are sequences of one-character strings, so that parsing,        *)
(* formatting, the folder-name pattern and lexicographic sorting are       *)
(* computed the way the code computes them.  A folder is modelled by its   *)
(* name; the files inside a folder are not part of the state.              *)
(***************************************************************************)
EXTENDS Integers, Sequences, FiniteSets, TLC

\* ---------------------------------------------------------------- bounds
\* Number of operations explored from the freshly initialised project.
MaxOps == 3

\* ------------------------------------------------------------ characters
DigitChars == <<"0", "1", "2", "3", "4", "5", "6", "7", "8", "9">>

LowerChars ==
  <<"a", "b", "c", "d", "e", "f", "g", "h", "i", "j", "k", "l", "m",
    "n", "o", "p", "q", "r", "s", "t", "u", "v", "w", "x", "y", "z">>

\* The characters in code-point order: digits < "A" < "_" < lowercase.
CharOrder == DigitChars \o <<"A", "_">> \o LowerChars

Range(s) == {s[i] : i \in DOMAIN s}

Digits == Range(DigitChars)

Lowers == Range(LowerChars)

\* str.isdigit() of one character
IsDigit(ch) == ch \in Digits

\* ord(ch), up to a monotone renumbering
OrdOf == [ch \in Range(CharOrder) |-> CHOOSE i \in DOMAIN CharOrder : CharOrder[i] = ch]

Ord(ch) == OrdOf[ch]

DigitValOf == [ch \in Digits |-> (CHOOSE i \in DOMAIN DigitChars : DigitChars[i] = ch) - 1]

DigitVal(ch) == DigitValOf[ch]

\* int(s) for a non-empty string of digits.
RECURSIVE IntOf(_)
IntOf(s) ==
  IF s = <<>> THEN 0
  ELSE 10 * IntOf(SubSeq(s, 1, Len(s) - 1)) + DigitVal(s[Len(s)])

\* str(n) for n >= 0.
RECURSIVE StrOf(_)
StrOf(n) ==
  IF n < 10 THEN <<DigitChars[n + 1]>>
  ELSE StrOf(n \div 10) \o <<DigitChars[(n % 10) + 1]>>

\* Python's str comparison a < b.
RECURSIVE StrLess(_, _)
StrLess(a, b) ==
  IF b = <<>> THEN FALSE
  ELSE IF a = <<>> THEN TRUE
  ELSE IF a[1] # b[1] THEN Ord(a[1]) < Ord(b[1])
  ELSE StrLess(Tail(a), Tail(b))

\* sorted(S, reverse=True) for a set of strings: the greatest string first.
RECURSIVE SortedReverse(_)
GreatestFirst(m, S) == <<m>> \o SortedReverse(S \ {m})

SortedReverse(S) ==
  IF S = {} THEN <<>>
  ELSE GreatestFirst(CHOOSE x \in S : \A y \in S : y = x \/ StrLess(y, x), S)

\* ---------------------------------------------------------------- position
\* parse_position: every digit of the string goes to the numeric part and
\* every other character to the letter part, wherever it stands.  The letter
\* part <<>> stands for None.
parse_position(pos_str) ==
  [ok     |-> SelectSeq(pos_str, IsDigit) # <<>>,
   digits |-> SelectSeq(pos_str, IsDigit),
   letter |-> SelectSeq(pos_str, LAMBDA ch : ~IsDigit(ch))]

\* Task.full_position: the numeric part goes through int().
full_position(pos, letter) == StrOf(pos) \o letter

\* f"{key}{letter}_{name}"
FolderName(key, letter, name) == key \o letter \o <<"_">> \o name

\* Length of the longest prefix of s made of characters of the set C.
RECURSIVE PrefixLen(_, _)
PrefixLen(s, C) ==
  IF s = <<>> \/ s[1] \notin C THEN 0 ELSE 1 + PrefixLen(Tail(s), C)

TakeWhile(s, C) == SubSeq(s, 1, PrefixLen(s, C))

DropWhile(s, C) == SubSeq(s, PrefixLen(s, C) + 1, Len(s))

\* get_folder_pattern().match(d): ^(\d+)([a-z]*)_(.+)$ .  Both repetitions
\* are followed by a character they cannot match, so each takes the longest
\* prefix.
MatchName(num, letter, rest) ==
  [ok     |-> num # <<>> /\ Len(rest) >= 2 /\ rest[1] = "_",
   num    |-> num,
   letter |-> letter,
   name   |-> IF rest = <<>> THEN <<>> ELSE Tail(rest)]

MatchLetters(num, rest) ==
  MatchName(num, TakeWhile(rest, Lowers), DropWhile(rest, Lowers))

MatchFolder(d) == MatchLetters(TakeWhile(d, Digits), DropWhile(d, Digits))

\* ------------------------------------------------------------------ config
\* mo["tasks"]: a mapping from key (a string) to either a plain name or a
\* mapping from letter to name.
EmptyMap == [k \in {} |-> <<>>]

Serial(name) == [dict |-> FALSE, name |-> name, slots |-> EmptyMap]

Parallel(slots) == [dict |-> TRUE, name |-> <<>>, slots |-> slots]

\* d[key] = value
Put(d, key, value) ==
  [k \in DOMAIN d \cup {key} |-> IF k = key THEN value ELSE d[k]]

\* d.pop(key), the mapping that is left
Pop(d, key) == [k \in DOMAIN d \ {key} |-> d[k]]

\* The folder names a configuration expects: f"{key}{letter}_{task_name}"
\* for every slot of a mapping, f"{key}_{value}" for a plain name.
TaskFolders(tasks_yaml) ==
  UNION {IF tasks_yaml[k].dict
           THEN {FolderName(k, l, tasks_yaml[k].slots[l]) :
                   l \in DOMAIN tasks_yaml[k].slots}
           ELSE {FolderName(k, <<>>, tasks_yaml[k].name)} : k \in DOMAIN tasks_yaml}

\* ------------------------------------------------------------- reconciler
\* found_folders of build_task_groups: the full positions f"{num}{letter}"
\* of the directories that match the folder pattern.
FoundPositions(folders) ==
  {m.num \o m.letter : m \in {mm \in {MatchFolder(d) : d \in folders} : mm.ok}}

\* groups[int(key)] = tg: keys with the same integer value overwrite each
\* other; the document is dumped with sorted keys, so the greatest key is
\* the one loaded last.
GroupKey(tasks_yaml, n) ==
  CHOOSE k \in DOMAIN tasks_yaml :
    /\ IntOf(k) = n
    /\ \A j \in DOMAIN tasks_yaml : IntOf(j) = n => (j = k \/ StrLess(j, k))

\* The tasks of one group as (letter, name) pairs; letter <<>> is None.
GroupTasks(value) ==
  IF value.dict
    THEN {[letter |-> l, name |-> value.slots[l]] : l \in DOMAIN value.slots}
    ELSE {[letter |-> <<>>, name |-> value.name]}

\* The groups dictionary of build_task_groups: order -> tasks.
TaskGroups(tasks_yaml) ==
  [n \in {IntOf(k) : k \in DOMAIN tasks_yaml} |->
     GroupTasks(tasks_yaml[GroupKey(tasks_yaml, n)])]

\* Lines 250-254: every task's full position must be among the folders found.
FoldersFound(groups, found) ==
  [ok     |-> \A n \in DOMAIN groups : \A t \in groups[n] :
                 full_position(n, t.letter) \in found,
   groups |-> groups]

\* build_task_groups: ok is FALSE when it raises "Folder for task ... not
\* found"; groups maps each order to the tasks of its group.
build_task_groups(tasks_yaml, folders) ==
  FoldersFound(TaskGroups(tasks_yaml), FoundPositions(folders))

\* ---------------------------------------------------------------- folders
\* rename_path (git mv) and shutil.move: the source takes the new name; when
\* the destination is an existing directory the source is moved inside it and
\* its name leaves the root.
Rename(folders, src, dst) ==
  IF dst \in folders THEN folders \ {src} ELSE (folders \ {src}) \cup {dst}

\* shutil.move(src, dst): as Rename, and a move onto itself changes nothing.
MovePath(folders, src, dst) ==
  IF src = dst THEN folders ELSE Rename(folders, src, dst)

\* ----------------------------------------------------------------- shifter
\* Lines 296-302: the name a folder of sorted_folders is renamed to.
NewFolder(m) == FolderName(StrOf(IntOf(m.num) + 1), m.letter, m.name)

\* Lines 296-307: one folder of sorted_folders goes to pos + 1, keeping its
\* letters and its name part.
ShiftOne(folders, folder_name, m) ==
  IF folder_name \in folders
    THEN Rename(folders, folder_name, NewFolder(m))
    ELSE folders

\* The renaming loop of shift_task_groups over sorted_folders.
RECURSIVE ShiftFolders(_, _)
ShiftFolders(sorted_folders, folders) ==
  IF sorted_folders = <<>> THEN folders
  ELSE ShiftFolders(Tail(sorted_folders),
                    ShiftOne(folders, Head(sorted_folders),
                             MatchFolder(Head(sorted_folders))))

\* Lines 281-289: the folders the shift renames.
ShiftMatch(m, start_pos) == m.ok /\ IntOf(m.num) >= start_pos

AffectedFolders(folders, start_pos) ==
  {d \in folders : ShiftMatch(MatchFolder(d), start_pos)}

\* sorted([int(k) for k in keys], reverse=True), duplicates kept.
RECURSIVE SortKeysDesc(_)
GreatestKeyFirst(m, S) == <<IntOf(m)>> \o SortKeysDesc(S \ {m})

SortKeysDesc(S) ==
  IF S = {} THEN <<>>
  ELSE GreatestKeyFirst(CHOOSE k \in S : \A j \in S : IntOf(j) <= IntOf(k), S)

\* Line 309: keys_to_shift
KeysToShift(keys, start_pos) == SortKeysDesc({k \in keys : IntOf(k) >= start_pos})

\* tasks_yaml[str(k + 1)] = tasks_yaml.pop(str(k)) for each k in turn; the pop
\* raises KeyError when no key is spelled str(k).
RECURSIVE ShiftYaml(_, _)
ShiftYaml(keys_to_shift, tasks_yaml) ==
  IF keys_to_shift = <<>> THEN [ok |-> TRUE, cfg |-> tasks_yaml]
  ELSE IF StrOf(Head(keys_to_shift)) \notin DOMAIN tasks_yaml
    THEN [ok |-> FALSE, cfg |-> tasks_yaml]
    ELSE ShiftYaml(Tail(keys_to_shift),
                   Put(Pop(tasks_yaml, StrOf(Head(keys_to_shift))),
                       StrOf(Head(keys_to_shift) + 1),
                       tasks_yaml[StrOf(Head(keys_to_shift))]))

Shifted(y, shifted_folders) ==
  [ok |-> y.ok, cfg |-> y.cfg, folders |-> shifted_folders]

\* Line 292: the affected folder names, greatest string first.
sorted_folders(folders, start_pos) ==
  SortedReverse(AffectedFolders(folders, start_pos))

\* shift_task_groups(start_pos, mo, base_dir): every folder and then every
\* config key with numeric part >= start_pos goes up by one.
shift_task_groups(start_pos, tasks_yaml, folders) ==
  Shifted(ShiftYaml(KeysToShift(DOMAIN tasks_yaml, start_pos), tasks_yaml),
          ShiftFolders(sorted_folders(folders, start_pos), folders))

\* -------------------------------------------------------------- operations
\* click.confirm: the prompts an operation can raise.  An operation reads the
\* caller's answers from ans, a function from prompt to BOOLEAN.
Prompts == {"delete", "flatten", "convert", "overwrite_dir", "save"}

\* What one call leaves behind: the configuration document on disk, the
\* folders, and the prompts it raised.  status "error" is a raised exception;
\* the document is then the one found at entry.
Done(tasks_yaml, folders, asked) ==
  [status |-> "ok", err |-> "", cfg |-> tasks_yaml, folders |-> folders,
   asked |-> asked]

Raise(err, tasks_yaml, folders, asked) ==
  [status |-> "error", err |-> err, cfg |-> tasks_yaml, folders |-> folders,
   asked |-> asked]

\* Lines 361-362 and 510-511: after the shift the name is recorded at pos.
PlaceShifted(s, tasks_yaml, pos, task_name) ==
  IF ~s.ok THEN Raise("KeyError", tasks_yaml, s.folders, {})
  ELSE Done(Put(s.cfg, pos, Serial(task_name)), s.folders, {})

\* Lines 373-386 and 522-533: the plain name at pos becomes a mapping holding
\* it under slot and the new task under letter (one dictionary display, so an
\* equal letter keeps the new task only); its folder is renamed if it exists
\* and the prompt is granted.
ConvertSerial(tasks_yaml, folders, pos, slot, letter, task_name, ans) ==
  IF FolderName(pos, <<>>, tasks_yaml[pos].name) \notin folders
    THEN Done(Put(tasks_yaml, pos,
                  Parallel(Put(Put(EmptyMap, slot, tasks_yaml[pos].name),
                               letter, task_name))),
              folders, {})
  ELSE IF ans["convert"]
    THEN Done(Put(tasks_yaml, pos,
                  Parallel(Put(Put(EmptyMap, slot, tasks_yaml[pos].name),
                               letter, task_name))),
              Rename(folders, FolderName(pos, <<>>, tasks_yaml[pos].name),
                     FolderName(pos, slot, tasks_yaml[pos].name)),
              {"convert"})
    ELSE Raise("ConversionDeclined", tasks_yaml, folders, {"convert"})

\* add_task, lines 357-386: the new entry in tasks_yaml.
AddPlace(tasks_yaml, folders, pos, letter, task_name, ans) ==
  IF letter = <<>>
    THEN IF pos \notin DOMAIN tasks_yaml
           THEN Done(Put(tasks_yaml, pos, Serial(task_name)), folders, {})
           ELSE PlaceShifted(shift_task_groups(IntOf(pos), tasks_yaml, folders),
                             tasks_yaml, pos, task_name)
  ELSE IF pos \notin DOMAIN tasks_yaml
    THEN Done(Put(tasks_yaml, pos, Parallel(Put(EmptyMap, letter, task_name))),
              folders, {})
  ELSE IF tasks_yaml[pos].dict
    THEN IF letter \in DOMAIN tasks_yaml[pos].slots
           THEN Raise("DuplicateSlot", tasks_yaml, folders, {})
           ELSE Done(Put(tasks_yaml, pos,
                         Parallel(Put(tasks_yaml[pos].slots, letter, task_name))),
                     folders, {})
  ELSE ConvertSerial(tasks_yaml, folders, pos, <<"b">>, letter, task_name, ans)

\* add_task, lines 388-409: safe_create_directory on the task folder (a
\* prompt if it exists; the folder exists afterwards either way), then the
\* document is written.
AddCommit(cfg, r, task_folder) ==
  IF r.status = "error" THEN Raise(r.err, cfg, r.folders, r.asked)
  ELSE Done(r.cfg, r.folders \cup {task_folder},
            r.asked \cup (IF task_folder \in r.folders THEN {"overwrite_dir"} ELSE {}))

\* AddChecked with the range check off by one: the order may be two past the
\* last group.
AddCheckedOffByOne(cfg, folders, b, p, task_name, ans) ==
  IF ~b.ok THEN Raise("MissingFolder", cfg, folders, {})
  ELSE IF ~p.ok THEN Raise("MalformedPosition", cfg, folders, {})
  ELSE IF IntOf(p.digits) > Cardinality(DOMAIN b.groups) + 2
    THEN Raise("PositionOutOfRange", cfg, folders, {})
  ELSE AddCommit(cfg, AddPlace(cfg, folders, p.digits, p.letter, task_name, ans),
                 FolderName(p.digits, p.letter, task_name))

\* add_task, lines 350-355: reconcile, parse, range check.
AddChecked(cfg, folders, b, p, task_name, ans) ==
  IF ~b.ok THEN Raise("MissingFolder", cfg, folders, {})
  ELSE IF ~p.ok THEN Raise("MalformedPosition", cfg, folders, {})
  ELSE IF IntOf(p.digits) > Cardinality(DOMAIN b.groups) + 1
    THEN Raise("PositionOutOfRange", cfg, folders, {})
  ELSE AddCommit(cfg, AddPlace(cfg, folders, p.digits, p.letter, task_name, ans),
                 FolderName(p.digits, p.letter, task_name))

\* add_task(base_dir, pos_str, task_name)
add_task(cfg, folders, pos_str, task_name, ans) ==
  AddChecked(cfg, folders, build_task_groups(cfg, folders),
             parse_position(pos_str), task_name, ans)

\* save_yaml -> safe_write_file: Mo.yaml exists, so the write is behind a
\* prompt, and a declined prompt skips the write without raising.
save_yaml(tasks_yaml, cfg, folders, asked, ans) ==
  Done(IF ans["save"] THEN tasks_yaml ELSE cfg, folders, asked \cup {"save"})

\* "if os.path.exists(folder): if click.confirm(...): shutil.rmtree(folder)"
RemoveFolder(folders, folder, ans) ==
  [folders |-> IF folder \in folders /\ ans["delete"] THEN folders \ {folder}
               ELSE folders,
   asked   |-> IF folder \in folders THEN {"delete"} ELSE {}]

\* FlattenSlot with the rename left out: the configuration is flattened and
\* the folder keeps its letter.
FlattenSlotKeepsFolder(tasks_yaml, folders, pos, remaining_letter, ans) ==
  [cfg     |-> Put(tasks_yaml, pos, Serial(tasks_yaml[pos].slots[remaining_letter])),
   folders |-> folders,
   asked   |-> {}]

\* The flattening of delete_task (448-458) and move_task (482-492): the one
\* remaining slot becomes a plain name; the folder is renamed if it exists and
\* the prompt is granted.
FlattenSlot(tasks_yaml, folders, pos, remaining_letter, ans) ==
  LET remaining_task == tasks_yaml[pos].slots[remaining_letter]
  IN  [cfg     |-> Put(tasks_yaml, pos, Serial(remaining_task)),
       folders |-> IF FolderName(pos, remaining_letter, remaining_task) \in folders
                      /\ ans["flatten"]
                     THEN Rename(folders,
                                 FolderName(pos, remaining_letter, remaining_task),
                                 FolderName(pos, <<>>, remaining_task))
                     ELSE folders,
       asked   |-> IF FolderName(pos, remaining_letter, remaining_task) \in folders
                     THEN {"flatten"} ELSE {}]

Flatten(tasks_yaml, folders, pos, ans) ==
  FlattenSlot(tasks_yaml, folders, pos,
              CHOOSE l \in DOMAIN tasks_yaml[pos].slots : TRUE, ans)

\* delete_task, lines 431-433 and 460-461.
DeleteShifted(cfg, s, asked, ans) ==
  IF ~s.ok THEN Raise("KeyError", cfg, s.folders, asked)
  ELSE save_yaml(s.cfg, cfg, s.folders, asked, ans)

\* delete_task, lines 424-433: the folder goes if the prompt is granted, the
\* entry goes either way, then shift_task_groups(int(pos) + 1, ...).
DeleteSerial(cfg, pos, rm, ans) ==
  DeleteShifted(cfg, shift_task_groups(IntOf(pos) + 1, Pop(cfg, pos), rm.folders),
                rm.asked, ans)

DeleteFlattened(cfg, f, asked, ans) ==
  save_yaml(f.cfg, cfg, f.folders, asked \cup f.asked, ans)

\* delete_task, lines 440-461: popped is tasks_yaml with the slot removed.
DeleteSlot(cfg, pos, popped, rm, ans) ==
  IF Cardinality(DOMAIN popped[pos].slots) = 1
    THEN DeleteFlattened(cfg, Flatten(popped, rm.folders, pos, ans), rm.asked, ans)
    ELSE save_yaml(popped, cfg, rm.folders, rm.asked, ans)

\* delete_task, lines 417-439.
DeleteChecked(cfg, folders, b, pos, letter, ans) ==
  IF ~b.ok THEN Raise("MissingFolder", cfg, folders, {})
  ELSE IF pos = <<>> THEN Raise("MalformedPosition", cfg, folders, {})
  ELSE IF pos \notin DOMAIN cfg THEN Raise("NoGroup", cfg, folders, {})
  ELSE IF letter = <<>> /\ ~cfg[pos].dict
    THEN DeleteSerial(cfg, pos,
                      RemoveFolder(folders, FolderName(pos, <<>>, cfg[pos].name), ans),
                      ans)
  ELSE IF ~cfg[pos].dict THEN Raise("InvalidGroupKind", cfg, folders, {})
  ELSE IF letter \notin DOMAIN cfg[pos].slots THEN Raise("NoTask", cfg, folders, {})
  ELSE DeleteSlot(cfg, pos, Put(cfg, pos, Parallel(Pop(cfg[pos].slots, letter))),
                  RemoveFolder(folders,
                               FolderName(pos, letter, cfg[pos].slots[letter]), ans),
                  ans)

DeleteParsed(cfg, folders, b, p, ans) ==
  DeleteChecked(cfg, folders, b, p.digits, p.letter, ans)

\* delete_task(base_dir, pos_str)
delete_task(cfg, folders, pos_str, ans) ==
  DeleteParsed(cfg, folders, build_task_groups(cfg, folders),
               parse_position(pos_str), ans)

\* move_task, lines 480-492: the slot leaves its group; one remaining slot
\* is flattened.
MoveFlattened(f) == Done(f.cfg, f.folders, f.asked)

MoveSlotOut(popped, folders, from_num, ans) ==
  IF Cardinality(DOMAIN popped[from_num].slots) = 1
    THEN MoveFlattened(Flatten(popped, folders, from_num, ans))
    ELSE Done(popped, folders, {})

\* move_task, lines 498-499: the serial source is popped and the later groups
\* go through shift_task_groups(int(from_num) + 1, ...).
MoveShiftedOut(cfg, s) ==
  IF ~s.ok THEN Raise("KeyError", cfg, s.folders, {})
  ELSE Done(s.cfg, s.folders, {})

\* move_task, lines 474-499: the source leaves tasks_yaml.
MoveRemove(cfg, folders, from_num, from_letter, ans) ==
  IF from_num \notin DOMAIN cfg THEN Raise("NoGroup", cfg, folders, {})
  ELSE IF cfg[from_num].dict
    THEN IF from_letter = <<>> \/ from_letter \notin DOMAIN cfg[from_num].slots
           THEN Raise("NoTask", cfg, folders, {})
           ELSE MoveSlotOut(Put(cfg, from_num,
                                Parallel(Pop(cfg[from_num].slots, from_letter))),
                            folders, from_num, ans)
  ELSE IF from_letter # <<>> THEN Raise("InvalidGroupKind", cfg, folders, {})
  ELSE MoveShiftedOut(cfg, shift_task_groups(IntOf(from_num) + 1,
                                             Pop(cfg, from_num), folders))

\* move_task, lines 506-534: the moved task enters tasks_yaml.
MovePlace(tasks_yaml, folders, to_num, to_letter, task_name, ans) ==
  IF to_letter = <<>>
    THEN IF to_num \notin DOMAIN tasks_yaml
           THEN Done(Put(tasks_yaml, to_num, Serial(task_name)), folders, {})
           ELSE PlaceShifted(shift_task_groups(IntOf(to_num), tasks_yaml, folders),
                             tasks_yaml, to_num, task_name)
  ELSE IF to_num \notin DOMAIN tasks_yaml
    THEN Done(Put(tasks_yaml, to_num, Parallel(Put(EmptyMap, to_letter, task_name))),
              folders, {})
  ELSE IF tasks_yaml[to_num].dict
    THEN IF to_letter \in DOMAIN tasks_yaml[to_num].slots
           THEN Raise("DuplicateSlot", tasks_yaml, folders, {})
           ELSE Done(Put(tasks_yaml, to_num,
                         Parallel(Put(tasks_yaml[to_num].slots, to_letter, task_name))),
                     folders, {})
  ELSE ConvertSerial(tasks_yaml, folders, to_num, <<"a">>, to_letter, task_name, ans)

\* MoveCommit with the document written before the error is raised: a failed
\* placement leaves the half-moved tasks in Mo.yaml.
MoveCommitWritesOnError(cfg, source_folder, new_folder, asked, pl, ans) ==
  IF pl.status = "error" THEN Raise(pl.err, pl.cfg, pl.folders, asked \cup pl.asked)
  ELSE save_yaml(pl.cfg, cfg,
                 IF source_folder \in pl.folders
                   THEN MovePath(pl.folders, source_folder, new_folder)
                   ELSE pl.folders,
                 asked \cup pl.asked, ans)

\* move_task, lines 535-543: the source folder, if it exists, is moved to the
\* destination name, then save_yaml.
MoveCommit(cfg, source_folder, new_folder, asked, pl, ans) ==
  IF pl.status = "error" THEN Raise(pl.err, cfg, pl.folders, asked \cup pl.asked)
  ELSE save_yaml(pl.cfg, cfg,
                 IF source_folder \in pl.folders
                   THEN MovePath(pl.folders, source_folder, new_folder)
                   ELSE pl.folders,
                 asked \cup pl.asked, ans)

\* move_task, lines 502-505: the destination is checked against a second
\* build_task_groups, which reads Mo.yaml from disk (still the document found
\* at entry) and the folders as the removal left them.
MoveResolved(cfg, task_name, source_folder, rem, pt, b1, ans) ==
  IF ~b1.ok THEN Raise("MissingFolder", cfg, rem.folders, rem.asked)
  ELSE IF IntOf(pt.digits) > Cardinality(DOMAIN b1.groups) + 1
    THEN Raise("PositionOutOfRange", cfg, rem.folders, rem.asked)
  ELSE MoveCommit(cfg, source_folder, FolderName(pt.digits, pt.letter, task_name),
                  rem.asked,
                  MovePlace(rem.cfg, rem.folders, pt.digits, pt.letter, task_name, ans),
                  ans)

\* The name at the source position (lines 480 and 496).
SourceName(cfg, from_num, from_letter) ==
  IF cfg[from_num].dict THEN cfg[from_num].slots[from_letter] ELSE cfg[from_num].name

MoveNamed(cfg, from_num, from_letter, task_name, rem, pt, ans) ==
  MoveResolved(cfg, task_name, FolderName(from_num, from_letter, task_name),
               rem, pt, build_task_groups(cfg, rem.folders), ans)

\* move_task, lines 500-501.
MoveRemoved(cfg, from_num, from_letter, rem, pt, ans) ==
  IF rem.status = "error" THEN Raise(rem.err, cfg, rem.folders, rem.asked)
  ELSE IF ~pt.ok THEN Raise("MalformedPosition", cfg, rem.folders, rem.asked)
  ELSE MoveNamed(cfg, from_num, from_letter,
                 SourceName(cfg, from_num, from_letter), rem, pt, ans)

\* move_task, lines 472-474.
MoveChecked(cfg, folders, b0, pf, to_pos_str, ans) ==
  IF ~b0.ok THEN Raise("MissingFolder", cfg, folders, {})
  ELSE IF ~pf.ok THEN Raise("MalformedPosition", cfg, folders, {})
  ELSE MoveRemoved(cfg, pf.digits, pf.letter,
                   MoveRemove(cfg, folders, pf.digits, pf.letter, ans),
                   parse_position(to_pos_str), ans)

\* move_task(base_dir, from_pos_str, to_pos_str)
move_task(cfg, folders, from_pos_str, to_pos_str, ans) ==
  MoveChecked(cfg, folders, build_task_groups(cfg, folders),
              parse_position(from_pos_str), to_pos_str, ans)

\* -------------------------------------------------- interrupted operations
\* A call can be killed between two of its steps.  The document is written
\* last, so a killed call leaves Mo.yaml as found and the folders as its
\* steps so far left them.  The operators below give, for one call, the
\* folder states at the points that follow a rename and precede the write.

\* The renaming loop of shift_task_groups stopped after its j-th folder.
ShiftPrefixes(seq, folders) ==
  {ShiftFolders(SubSeq(seq, 1, j), folders) : j \in 1..Len(seq)}

\* add_task, lines 361-391: inside the shift, after it, and after
\* safe_create_directory has made the new task's folder.
AddShiftPoints(s, prefixes, task_folder) ==
  prefixes \cup (IF s.ok /\ prefixes # {} THEN {s.folders \cup {task_folder}} ELSE {})

\* add_task, lines 378-391: after the conversion rename, and after
\* safe_create_directory.
AddConvertPoints(r, task_folder) ==
  IF r.status = "ok" /\ "convert" \in r.asked
    THEN {r.folders, r.folders \cup {task_folder}}
    ELSE {}

AddInterruptedPlace(tasks_yaml, folders, pos, letter, task_name, ans) ==
  IF pos \notin DOMAIN tasks_yaml THEN {}
  ELSE IF letter = <<>>
    THEN AddShiftPoints(shift_task_groups(IntOf(pos), tasks_yaml, folders),
                        ShiftPrefixes(sorted_folders(folders, IntOf(pos)), folders),
                        FolderName(pos, <<>>, task_name))
  ELSE IF tasks_yaml[pos].dict THEN {}
  ELSE AddConvertPoints(ConvertSerial(tasks_yaml, folders, pos, <<"b">>, letter,
                                      task_name, ans),
                        FolderName(pos, letter, task_name))

AddInterruptedChecked(cfg, folders, b, p, task_name, ans) ==
  IF ~b.ok \/ ~p.ok THEN {}
  ELSE IF IntOf(p.digits) > Cardinality(DOMAIN b.groups) + 1 THEN {}
  ELSE AddInterruptedPlace(cfg, folders, p.digits, p.letter, task_name, ans)

\* The folder states add_task can be killed in after a rename.
add_task_interrupted(cfg, folders, pos_str, task_name, ans) ==
  AddInterruptedChecked(cfg, folders, build_task_groups(cfg, folders),
                        parse_position(pos_str), task_name, ans)

\* A single rename: the state after it, if it happened.
RenamePoint(after, before) == IF after # before THEN {after} ELSE {}

\* delete_task, lines 448-457: after the flattening rename.
DeleteInterruptedSlot(popped, rm, pos, ans) ==
  IF Cardinality(DOMAIN popped[pos].slots) = 1
    THEN RenamePoint(Flatten(popped, rm.folders, pos, ans).folders, rm.folders)
    ELSE {}

\* delete_task, line 432: inside and after the shift.
DeleteInterruptedSerial(pos, rm) ==
  ShiftPrefixes(sorted_folders(rm.folders, IntOf(pos) + 1), rm.folders)

DeleteInterruptedChecked(cfg, folders, b, pos, letter, ans) ==
  IF ~b.ok \/ pos = <<>> THEN {}
  ELSE IF pos \notin DOMAIN cfg THEN {}
  ELSE IF letter = <<>> /\ ~cfg[pos].dict
    THEN DeleteInterruptedSerial(pos,
           RemoveFolder(folders, FolderName(pos, <<>>, cfg[pos].name), ans))
  ELSE IF ~cfg[pos].dict THEN {}
  ELSE IF letter \notin DOMAIN cfg[pos].slots THEN {}
  ELSE DeleteInterruptedSlot(Put(cfg, pos, Parallel(Pop(cfg[pos].slots, letter))),
                             RemoveFolder(folders,
                                          FolderName(pos, letter, cfg[pos].slots[letter]),
                                          ans),
                             pos, ans)

DeleteInterruptedParsed(cfg, folders, b, p, ans) ==
  DeleteInterruptedChecked(cfg, folders, b, p.digits, p.letter, ans)

\* The folder states delete_task can be killed in after a rename.
delete_task_interrupted(cfg, folders, pos_str, ans) ==
  DeleteInterruptedParsed(cfg, folders, build_task_groups(cfg, folders),
                          parse_position(pos_str), ans)

\* move_task, lines 480-499: after the flattening rename of a slot source,
\* inside and after the shift of a serial source.
MoveRemovalPoints(cfg, folders, from_num, from_letter, rem) ==
  IF from_num \notin DOMAIN cfg THEN {}
  ELSE IF cfg[from_num].dict
    THEN IF rem.status = "ok" THEN RenamePoint(rem.folders, folders) ELSE {}
  ELSE IF from_letter # <<>> THEN {}
  ELSE ShiftPrefixes(sorted_folders(folders, IntOf(from_num) + 1), folders)

\* move_task, lines 506-537: inside and after the shift of line 510 or after
\* the conversion rename, and after shutil.move has relocated the source
\* folder.
MovePlacementPoints(rem, to_num, to_letter, pl, source_folder, new_folder) ==
  (IF to_letter = <<>> /\ to_num \in DOMAIN rem.cfg
     THEN ShiftPrefixes(sorted_folders(rem.folders, IntOf(to_num)), rem.folders)
     ELSE IF pl.status = "ok" THEN RenamePoint(pl.folders, rem.folders) ELSE {})
  \cup
  (IF pl.status = "ok" /\ source_folder \in pl.folders /\ source_folder # new_folder
     THEN {MovePath(pl.folders, source_folder, new_folder)}
     ELSE {})

\* move_task, lines 501-505: the placement is reached when the destination
\* parses and passes the second build_task_groups and the range check.
MoveInterruptedResolved(cfg, task_name, source_folder, rem, pt, b1, ans) ==
  IF ~b1.ok THEN {}
  ELSE IF IntOf(pt.digits) > Cardinality(DOMAIN b1.groups) + 1 THEN {}
  ELSE MovePlacementPoints(rem, pt.digits, pt.letter,
                           MovePlace(rem.cfg, rem.folders, pt.digits, pt.letter,
                                     task_name, ans),
                           source_folder,
                           FolderName(pt.digits, pt.letter, task_name))

MoveInterruptedNamed(cfg, from_num, from_letter, task_name, rem, pt, ans) ==
  MoveInterruptedResolved(cfg, task_name,
                          FolderName(from_num, from_letter, task_name),
                          rem, pt, build_task_groups(cfg, rem.folders), ans)

MoveInterruptedRemoved(cfg, folders, from_num, from_letter, rem, pt, ans) ==
  MoveRemovalPoints(cfg, folders, from_num, from_letter, rem)
  \cup
  (IF rem.status = "error" \/ ~pt.ok THEN {}
   ELSE MoveInterruptedNamed(cfg, from_num, from_letter,
                             SourceName(cfg, from_num, from_letter), rem, pt, ans))

MoveInterruptedChecked(cfg, folders, b0, pf, to_pos_str, ans) ==
  IF ~b0.ok \/ ~pf.ok THEN {}
  ELSE MoveInterruptedRemoved(cfg, folders, pf.digits, pf.letter,
                              MoveRemove(cfg, folders, pf.digits, pf.letter, ans),
                              parse_position(to_pos_str), ans)

\* The folder states move_task can be killed in after a rename.
move_task_interrupted(cfg, folders, from_pos_str, to_pos_str, ans) ==
  MoveInterruptedChecked(cfg, folders, build_task_groups(cfg, folders),
                         parse_position(from_pos_str), to_pos_str, ans)

\* ------------------------------------------------------- destructive steps
\* The steps of one call that remove, rename, relocate or overwrite a path,
\* and the backups (backup_path) taken, in the order the code performs them.
\* The files inside a task folder are written through safe_write_file, which
\* backs a file up before it overwrites it; they are not part of the state.
YamlPath == <<"M", "o", ".", "y", "a", "m", "l">>

Ev(kind, path) == [kind |-> kind, path |-> path]

\* "backup = backup_path(p)" followed by the step on p.
BackedUp(path, kind) == <<Ev("backup", path), Ev(kind, path)>>

\* shift_task_groups, lines 295-307: each folder that still exists is backed
\* up and renamed.
RECURSIVE ShiftLog(_, _)
ShiftLog(seq, folders) ==
  IF seq = <<>> THEN <<>>
  ELSE (IF Head(seq) \in folders THEN BackedUp(Head(seq), "rename") ELSE <<>>)
       \o ShiftLog(Tail(seq), ShiftOne(folders, Head(seq), MatchFolder(Head(seq))))

shift_log(start_pos, folders) ==
  ShiftLog(sorted_folders(folders, start_pos), folders)

\* Lines 357-386 and 506-533: the shift, or the conversion rename when the
\* folder exists and the prompt is granted.
PlaceLog(tasks_yaml, folders, pos, letter, ans) ==
  IF pos \notin DOMAIN tasks_yaml THEN <<>>
  ELSE IF letter = <<>> THEN shift_log(IntOf(pos), folders)
  ELSE IF tasks_yaml[pos].dict THEN <<>>
  ELSE IF FolderName(pos, <<>>, tasks_yaml[pos].name) \in folders /\ ans["convert"]
    THEN BackedUp(FolderName(pos, <<>>, tasks_yaml[pos].name), "rename")
  ELSE <<>>

\* add_task, lines 391 and 406-408: safe_create_directory backs up and removes
\* an existing folder when the prompt is granted; Mo.yaml is then opened for
\* writing directly.
AddCommitLog(place_log, r, task_folder, ans) ==
  IF r.status = "error" THEN place_log
  ELSE place_log
       \o (IF task_folder \in r.folders /\ ans["overwrite_dir"]
             THEN BackedUp(task_folder, "rmtree") ELSE <<>>)
       \o <<Ev("write", YamlPath)>>

AddCheckedLog(cfg, folders, b, p, task_name, ans) ==
  IF ~b.ok \/ ~p.ok THEN <<>>
  ELSE IF IntOf(p.digits) > Cardinality(DOMAIN b.groups) + 1 THEN <<>>
  ELSE AddCommitLog(PlaceLog(cfg, folders, p.digits, p.letter, ans),
                    AddPlace(cfg, folders, p.digits, p.letter, task_name, ans),
                    FolderName(p.digits, p.letter, task_name), ans)

add_task_log(cfg, folders, pos_str, task_name, ans) ==
  AddCheckedLog(cfg, folders, build_task_groups(cfg, folders),
                parse_position(pos_str), task_name, ans)

\* Lines 425-429 and 442-446: backup and rmtree when the prompt is granted.
RemoveLog(folders, folder, ans) ==
  IF folder \in folders /\ ans["delete"] THEN BackedUp(folder, "rmtree") ELSE <<>>

\* Lines 452-456 and 486-490: backup and rename when the prompt is granted.
FlattenSlotLog(tasks_yaml, folders, pos, remaining_letter, ans) ==
  IF FolderName(pos, remaining_letter, tasks_yaml[pos].slots[remaining_letter])
       \in folders /\ ans["flatten"]
    THEN BackedUp(FolderName(pos, remaining_letter,
                             tasks_yaml[pos].slots[remaining_letter]), "rename")
    ELSE <<>>

FlattenLog(popped, folders, pos, ans) ==
  IF Cardinality(DOMAIN popped[pos].slots) = 1
    THEN FlattenSlotLog(popped, folders, pos,
                        CHOOSE l \in DOMAIN popped[pos].slots : TRUE, ans)
    ELSE <<>>

\* save_yaml -> safe_write_file, lines 139-148: backup and write when the
\* prompt is granted.
SaveLog(ans) == IF ans["save"] THEN BackedUp(YamlPath, "write") ELSE <<>>

DeleteSerialLog(pos, rm, remove_log, s, ans) ==
  remove_log \o shift_log(IntOf(pos) + 1, rm.folders)
             \o (IF s.ok THEN SaveLog(ans) ELSE <<>>)

DeleteCheckedLog(cfg, folders, b, pos, letter, ans) ==
  IF ~b.ok \/ pos = <<>> THEN <<>>
  ELSE IF pos \notin DOMAIN cfg THEN <<>>
  ELSE IF letter = <<>> /\ ~cfg[pos].dict
    THEN DeleteSerialLog(pos,
           RemoveFolder(folders, FolderName(pos, <<>>, cfg[pos].name), ans),
           RemoveLog(folders, FolderName(pos, <<>>, cfg[pos].name), ans),
           ShiftYaml(KeysToShift(DOMAIN Pop(cfg, pos), IntOf(pos) + 1), Pop(cfg, pos)),
           ans)
  ELSE IF ~cfg[pos].dict THEN <<>>
  ELSE IF letter \notin DOMAIN cfg[pos].slots THEN <<>>
  ELSE RemoveLog(folders, FolderName(pos, letter, cfg[pos].slots[letter]), ans)
       \o FlattenLog(Put(cfg, pos, Parallel(Pop(cfg[pos].slots, letter))),
                     RemoveFolder(folders,
                                  FolderName(pos, letter, cfg[pos].slots[letter]),
                                  ans).folders,
                     pos, ans)
       \o SaveLog(ans)

DeleteParsedLog(cfg, folders, b, p, ans) ==
  DeleteCheckedLog(cfg, folders, b, p.digits, p.letter, ans)

delete_task_log(cfg, folders, pos_str, ans) ==
  DeleteParsedLog(cfg, folders, build_task_groups(cfg, folders),
                  parse_position(pos_str), ans)

\* move_task, lines 480-499: the flattening rename or the shift.
MoveRemoveLog(cfg, folders, from_num, from_letter, ans) ==
  IF from_num \notin DOMAIN cfg THEN <<>>
  ELSE IF cfg[from_num].dict
    THEN IF from_letter = <<>> \/ from_letter \notin DOMAIN cfg[from_num].slots
           THEN <<>>
           ELSE FlattenLog(Put(cfg, from_num,
                               Parallel(Pop(cfg[from_num].slots, from_letter))),
                           folders, from_num, ans)
  ELSE IF from_letter # <<>> THEN <<>>
  ELSE shift_log(IntOf(from_num) + 1, folders)

\* move_task, lines 536-543: shutil.move on the source folder, with no
\* backup_path before it, then save_yaml.
MoveCommitLog(pl, source_folder, ans) ==
  IF pl.status = "error" THEN <<>>
  ELSE (IF source_folder \in pl.folders THEN <<Ev("move", source_folder)>> ELSE <<>>)
       \o SaveLog(ans)

MoveResolvedLog(task_name, source_folder, rem, pt, b1, ans) ==
  IF ~b1.ok THEN <<>>
  ELSE IF IntOf(pt.digits) > Cardinality(DOMAIN b1.groups) + 1 THEN <<>>
  ELSE PlaceLog(rem.cfg, rem.folders, pt.digits, pt.letter, ans)
       \o MoveCommitLog(MovePlace(rem.cfg, rem.folders, pt.digits, pt.letter,
                                  task_name, ans),
                        source_folder, ans)

MoveNamedLog(cfg, from_num, from_letter, task_name, rem, pt, ans) ==
  MoveResolvedLog(task_name, FolderName(from_num, from_letter, task_name),
                  rem, pt, build_task_groups(cfg, rem.folders), ans)

MoveRemovedLog(cfg, folders, from_num, from_letter, rem, pt, ans) ==
  MoveRemoveLog(cfg, folders, from_num, from_letter, ans)
  \o (IF rem.status = "error" \/ ~pt.ok THEN <<>>
      ELSE MoveNamedLog(cfg, from_num, from_letter,
                        SourceName(cfg, from_num, from_letter), rem, pt, ans))

MoveCheckedLog(cfg, folders, b0, pf, to_pos_str, ans) ==
  IF ~b0.ok \/ ~pf.ok THEN <<>>
  ELSE MoveRemovedLog(cfg, folders, pf.digits, pf.letter,
                      MoveRemove(cfg, folders, pf.digits, pf.letter, ans),
                      parse_position(to_pos_str), ans)

move_task_log(cfg, folders, from_pos_str, to_pos_str, ans) ==
  MoveCheckedLog(cfg, folders, build_task_groups(cfg, folders),
                 parse_position(from_pos_str), to_pos_str, ans)

\* ------------------------------------------------------------ state machine
VARIABLES
  cfg,      \* mo["tasks"] as stored in Mo.yaml
  folders,  \* names of the directories directly under the project root
  nops,     \* number of calls made so far
  last,     \* the last call: its arguments, outcome and the stores at entry
  clean     \* every call so far returned without error, every prompt granted

vars == <<cfg, folders, nops, last, clean>>

\* Position strings and task names the caller passes.
PosStrings ==
  {<<"1">>, <<"2">>, <<"3">>, <<"1", "a">>, <<"1", "b">>, <<"0", "1">>}

Names == {<<"x">>, <<"y">>}

\* The answers a caller can give: granted (TRUE) for every prompt outside
\* asked_of, every combination for the prompts in asked_of.  An operation only
\* reads the answers to the prompts it can raise.
Answers(asked_of) ==
  {[q \in Prompts |-> IF q \in asked_of THEN a[q] ELSE TRUE] :
     a \in [asked_of -> BOOLEAN]}

\* The project as "init" leaves it: mo = {"model": model, "tasks": {}} and no
\* task folder.
Init ==
  /\ cfg = EmptyMap
  /\ folders = {}
  /\ nops = 0
  /\ clean = TRUE
  /\ last = [op |-> "init", pos |-> <<>>, to |-> <<>>, name |-> <<>>,
             status |-> "ok", err |-> "", asked |-> {}, declined |-> {},
             cfg0 |-> EmptyMap, folders0 |-> {}]

\* One call of the command line: the stores become what the call leaves, and
\* the call is recorded.
Apply(op, pos, to, name, ans, r) ==
  /\ nops' = nops + 1
  /\ cfg' = r.cfg
  /\ folders' = r.folders
  /\ last' = [op |-> op, pos |-> pos, to |-> to, name |-> name,
              status |-> r.status, err |-> r.err, asked |-> r.asked,
              declined |-> {q \in r.asked : ~ans[q]},
              cfg0 |-> cfg, folders0 |-> folders]
  /\ clean' = (clean /\ r.status = "ok" /\ \A q \in r.asked : ans[q])

Insert ==
  /\ nops < MaxOps
  /\ \E pos \in PosStrings, name \in Names, ans \in Answers({"convert", "overwrite_dir"}) :
       \E r \in {add_task(cfg, folders, pos, name, ans)} :
         Apply("insert", pos, <<>>, name, ans, r)

Delete ==
  /\ nops < MaxOps
  /\ \E pos \in PosStrings, ans \in Answers({"delete", "flatten", "save"}) :
       \E r \in {delete_task(cfg, folders, pos, ans)} :
         Apply("delete", pos, <<>>, <<>>, ans, r)

Move ==
  /\ nops < MaxOps
  /\ \E from \in PosStrings, to \in PosStrings, ans \in Answers({"flatten", "convert", "save"}) :
       \E r \in {move_task(cfg, folders, from, to, ans)} :
         Apply("move", from, to, <<>>, ans, r)

Next == Insert \/ Delete \/ Move

Spec == Init /\ [][Next]_vars

\* ------------------------------------------------- a project of ten groups
\* Number of serial groups of the large project.
LargeGroups == 10

\* Number of inserts explored on the large project.
MaxLargeOps == 1

LargePos == {<<"1">>, <<"9">>, <<"1", "0">>, <<"1", "1">>}

\* The configuration that add_task leaves after serial inserts at 1, 2, ...,
\* LargeGroups with the names nm[1], nm[2], ...
LargeConfig(nm) ==
  [k \in {StrOf(n) : n \in 1..LargeGroups} |-> Serial(nm[IntOf(k)])]

InitLarge ==
  /\ \E nm \in [1..LargeGroups -> Names] :
       /\ cfg = LargeConfig(nm)
       /\ folders = TaskFolders(LargeConfig(nm))
  /\ nops = 0
  /\ clean = TRUE
  /\ last = [op |-> "init", pos |-> <<>>, to |-> <<>>, name |-> <<>>,
             status |-> "ok", err |-> "", asked |-> {}, declined |-> {},
             cfg0 |-> EmptyMap, folders0 |-> {}]

InsertLarge ==
  /\ nops < MaxLargeOps
  /\ \E pos \in LargePos, name \in Names, ans \in Answers({}) :
       \E r \in {add_task(cfg, folders, pos, name, ans)} :
         Apply("insert", pos, <<>>, name, ans, r)

NextLarge == InsertLarge

SpecLarge == InitLarge /\ [][NextLarge]_vars

\* ------------------------------------- parse_position and full_position alone
\* Longest position string tried.
MaxPosLen == 3

\* The characters position strings are made of: digits, lowercase letters, an
\* uppercase letter and the underscore.
PosChars == {"0", "1", "2", "a", "b", "A", "_"}

\* Every string of at most MaxPosLen such characters, the empty one included.
PosInputs == UNION {[1..n -> PosChars] : n \in 0..MaxPosLen}

\* Task(pos, ...).full_position() on the pair parse_position returned:
\* Task.__init__ keeps int(pos).
FormatParsed(p) == full_position(IntOf(p.digits), p.letter)

\* What parse_position(pos_str) followed by Task.full_position leaves: the
\* pair, and the string formatted from it; an error when parse_position
\* raises "Position must start with a number."
Parsed(pos_str, p) ==
  [op |-> "parse", pos |-> pos_str,
   status |-> IF p.ok THEN "ok" ELSE "error",
   err |-> IF p.ok THEN "" ELSE "MalformedPosition",
   digits |-> p.digits, letter |-> p.letter,
   formatted |-> IF p.ok THEN FormatParsed(p) ELSE <<>>]

InitParse ==
  /\ cfg = EmptyMap
  /\ folders = {}
  /\ nops = 0
  /\ clean = TRUE
  /\ \E pos_str \in PosInputs : last = [op |-> "input", pos |-> pos_str]

ParsePosition ==
  /\ last.op = "input"
  /\ last' = Parsed(last.pos, parse_position(last.pos))
  /\ nops' = nops + 1
  /\ UNCHANGED <<cfg, folders, clean>>

NextParse == ParsePosition

SpecParse == InitParse /\ [][NextParse]_vars

\* ------------------------------------------------ calls that can be killed
\* A killed call: the document stays, the folders are left at one of the
\* points above.
ApplyInterrupted(op, pos, to, name, f) ==
  /\ nops' = nops + 1
  /\ cfg' = cfg
  /\ folders' = f
  /\ last' = [op |-> op, pos |-> pos, to |-> to, name |-> name,
              status |-> "interrupted", err |-> "", asked |-> {}, declined |-> {},
              cfg0 |-> cfg, folders0 |-> folders]
  /\ clean' = FALSE

InterruptedInsert ==
  /\ nops < MaxOps
  /\ \E pos \in PosStrings, name \in Names, ans \in Answers({"convert"}) :
       \E f \in add_task_interrupted(cfg, folders, pos, name, ans) :
         ApplyInterrupted("insert", pos, <<>>, name, f)

InterruptedDelete ==
  /\ nops < MaxOps
  /\ \E pos \in PosStrings, ans \in Answers({"delete", "flatten"}) :
       \E f \in delete_task_interrupted(cfg, folders, pos, ans) :
         ApplyInterrupted("delete", pos, <<>>, <<>>, f)

InterruptedMove ==
  /\ nops < MaxOps
  /\ \E from \in PosStrings, to \in PosStrings, ans \in Answers({"flatten", "convert"}) :
       \E f \in move_task_interrupted(cfg, folders, from, to, ans) :
         ApplyInterrupted("move", from, to, <<>>, f)

NextInterrupt ==
  \/ Insert \/ Delete \/ Move
  \/ InterruptedInsert \/ InterruptedDelete \/ InterruptedMove

SpecInterrupt == Init /\ [][NextInterrupt]_vars

\* ------------------------------------------------------------------ claims
Returned == last.op \in {"insert", "delete", "move"} /\ last.status = "ok"

Granted == last.declined = {}

LastPos == parse_position(last.pos)

\* The tasks of a configuration as (key, letter, name) triples.
AllTasks(tasks_yaml) ==
  UNION {{[key |-> k, letter |-> t.letter, name |-> t.name] :
            t \in GroupTasks(tasks_yaml[k])} : k \in DOMAIN tasks_yaml}

\* The orders of the groups are exactly 1..N.
Contiguous(groups) == DOMAIN groups = 1..Cardinality(DOMAIN groups)

\* C1: after calls that all returned without error with every confirmation
\* granted, every configured task has its folder "{order}{slot?}_{name}" under
\* the root and build_task_groups succeeds.
C1_FoldersInSync ==
  clean => /\ TaskFolders(cfg) \subseteq folders
           /\ build_task_groups(cfg, folders).ok

\* C2: after calls that all returned without error with every confirmation
\* granted, the orders of the groups build_task_groups returns are exactly
\* 1..N.
C2_OrdersContiguous ==
  clean => Contiguous(build_task_groups(cfg, folders).groups)

\* C3: after an Insert, Delete or Move that returned without error, no group
\* of the configuration is a mapping with fewer than two slots.
C3_NoSingleSlotGroup ==
  Returned => \A k \in DOMAIN cfg :
                cfg[k].dict => Cardinality(DOMAIN cfg[k].slots) >= 2

\* A project in which both stores agree: every configured task has its
\* folder, the orders are 1..N, every key is the canonical spelling of its
\* order, and every mapping has at least two slots.
Consistent(tasks_yaml, dirs) ==
  /\ build_task_groups(tasks_yaml, dirs).ok
  /\ TaskFolders(tasks_yaml) \subseteq dirs
  /\ Contiguous(TaskGroups(tasks_yaml))
  /\ \A k \in DOMAIN tasks_yaml :
       /\ k = StrOf(IntOf(k))
       /\ tasks_yaml[k].dict => Cardinality(DOMAIN tasks_yaml[k].slots) >= 2

\* The last call was an Insert, into a consistent project, of a serial
\* position whose key was occupied, and it returned without error.
SerialInsertOnOccupied ==
  /\ last.op = "insert" /\ last.status = "ok"
  /\ Consistent(last.cfg0, last.folders0)
  /\ LastPos.letter = <<>>
  /\ LastPos.digits \in DOMAIN last.cfg0

\* Every group of before at an order >= k is found one order higher in after,
\* with the same value, and the folder of each of its tasks carries the
\* order + 1 prefix with the same letter and name.
MovedUp(before, after, dirs, k) ==
  \A key \in DOMAIN before :
    IntOf(key) >= k =>
      /\ StrOf(IntOf(key) + 1) \in DOMAIN after
      /\ after[StrOf(IntOf(key) + 1)] = before[key]
      /\ \A t \in GroupTasks(before[key]) :
           FolderName(StrOf(IntOf(key) + 1), t.letter, t.name) \in dirs

\* Every group of before at an order < k is in after with the same value and
\* the folders of its tasks are still there.
Untouched(before, after, dirs, k) ==
  \A key \in DOMAIN before :
    IntOf(key) < k =>
      /\ key \in DOMAIN after
      /\ after[key] = before[key]
      /\ \A t \in GroupTasks(before[key]) :
           FolderName(key, t.letter, t.name) \in dirs

\* C4: an Insert of a serial position k that is occupied moves every group
\* with order >= k to order + 1 in the configuration and in the folder
\* names, leaves the groups below k alone, and records the new name as a
\* serial entry at k with the folder "k_name".
C4_SerialInsertShifts ==
  SerialInsertOnOccupied =>
    /\ MovedUp(last.cfg0, cfg, folders, IntOf(LastPos.digits))
    /\ Untouched(last.cfg0, cfg, folders, IntOf(LastPos.digits))
    /\ cfg[LastPos.digits] = Serial(last.name)
    /\ FolderName(LastPos.digits, <<>>, last.name) \in folders

\* The last call was a Delete of a serial group of a consistent project, every
\* confirmation granted, and it returned without error.
SerialDelete ==
  /\ last.op = "delete" /\ last.status = "ok" /\ Granted
  /\ Consistent(last.cfg0, last.folders0)
  /\ LastPos.letter = <<>>
  /\ LastPos.digits \in DOMAIN last.cfg0
  /\ ~last.cfg0[LastPos.digits].dict

\* Every group of before at an order > k is found one order lower in after,
\* with the same value, and so are the folders of its tasks.
MovedDown(before, after, dirs, k) ==
  \A key \in DOMAIN before :
    IntOf(key) > k =>
      /\ StrOf(IntOf(key) - 1) \in DOMAIN after
      /\ after[StrOf(IntOf(key) - 1)] = before[key]
      /\ \A t \in GroupTasks(before[key]) :
           FolderName(StrOf(IntOf(key) - 1), t.letter, t.name) \in dirs

\* C5: a Delete of the serial group at order k removes its entry and its
\* folder and moves every group above k one order down in both stores; the
\* groups below k are unchanged.
C5_SerialDeleteClosesGap ==
  SerialDelete =>
    /\ FolderName(LastPos.digits, <<>>, last.cfg0[LastPos.digits].name) \notin folders
    /\ MovedDown(last.cfg0, cfg, folders, IntOf(LastPos.digits))
    /\ Untouched(last.cfg0, cfg, folders, IntOf(LastPos.digits))

LastTo == parse_position(last.to)

\* The last call was a Move between two different positions of a consistent
\* project: the source names a task, the destination order is one of the
\* existing orders and names no slot that is taken, every confirmation granted.
MoveWithinRange ==
  /\ last.op = "move" /\ Granted /\ last.pos # last.to
  /\ Consistent(last.cfg0, last.folders0)
  /\ LastPos.digits \in DOMAIN last.cfg0
  /\ IF last.cfg0[LastPos.digits].dict
       THEN LastPos.letter \in DOMAIN last.cfg0[LastPos.digits].slots
       ELSE LastPos.letter = <<>>
  /\ LastTo.digits \in DOMAIN last.cfg0
  /\ last.cfg0[LastTo.digits].dict =>
       LastTo.letter \notin DOMAIN last.cfg0[LastTo.digits].slots

\* The name recorded at a full position of a configuration is name.
RecordedAt(tasks_yaml, key, letter, name) ==
  /\ key \in DOMAIN tasks_yaml
  /\ [letter |-> letter, name |-> name] \in GroupTasks(tasks_yaml[key])

\* C6: such a Move returns without error, records the moved name at the
\* destination, leaves its folder under "{to}_{name}" and no folder at the
\* old path.
C6_MoveRelocates ==
  MoveWithinRange =>
    /\ last.status = "ok"
    /\ RecordedAt(cfg, LastTo.digits, LastTo.letter,
                  SourceName(last.cfg0, LastPos.digits, LastPos.letter))
    /\ FolderName(LastTo.digits, LastTo.letter,
                  SourceName(last.cfg0, LastPos.digits, LastPos.letter)) \in folders
    /\ FolderName(LastPos.digits, LastPos.letter,
                  SourceName(last.cfg0, LastPos.digits, LastPos.letter)) \notin folders

\* C7: when an Insert at p that returned without error is followed by a
\* Delete at p that returns without error, every confirmation granted in
\* both, each task present before the Insert is afterwards at the same key and
\* letter with the same name.
C7_InsertThenDelete ==
  [][(/\ last.op = "insert" /\ last.status = "ok" /\ last.declined = {}
      /\ Consistent(last.cfg0, last.folders0)
      /\ last'.op = "delete" /\ last'.status = "ok" /\ last'.declined = {}
      /\ last'.pos = last.pos)
     => AllTasks(last.cfg0) \subseteq AllTasks(cfg')]_vars

\* The last call was an Insert, into a consistent project, of a lettered
\* position whose order held a serial task of another name; every
\* confirmation was granted and it returned without error.
ParallelInsertOnSerial ==
  /\ last.op = "insert" /\ last.status = "ok" /\ Granted
  /\ Consistent(last.cfg0, last.folders0)
  /\ LastPos.letter # <<>>
  /\ LastPos.digits \in DOMAIN last.cfg0
  /\ ~last.cfg0[LastPos.digits].dict
  /\ last.cfg0[LastPos.digits].name # last.name

\* Every key other than key has the same value in both configurations.
SameElsewhere(before, after, key) ==
  /\ DOMAIN after = DOMAIN before
  /\ \A k \in DOMAIN before : k # key => after[k] = before[k]

\* C8: such an Insert leaves at k a mapping of exactly two slots, one with the
\* task that was there and one with the new task, and changes no other group.
C8_ConversionKeepsBoth ==
  ParallelInsertOnSerial =>
    /\ cfg[LastPos.digits].dict
    /\ Cardinality(DOMAIN cfg[LastPos.digits].slots) = 2
    /\ cfg[LastPos.digits].slots[LastPos.letter] = last.name
    /\ \E l \in DOMAIN cfg[LastPos.digits].slots :
         /\ l # LastPos.letter
         /\ cfg[LastPos.digits].slots[l] = last.cfg0[LastPos.digits].name
    /\ SameElsewhere(last.cfg0, cfg, LastPos.digits)

\* The last call was a Delete of one slot of a mapping with exactly two slots,
\* every confirmation granted, and it returned without error.
SlotDeleteOfTwo ==
  /\ last.op = "delete" /\ last.status = "ok" /\ Granted
  /\ LastPos.digits \in DOMAIN last.cfg0
  /\ last.cfg0[LastPos.digits].dict
  /\ Cardinality(DOMAIN last.cfg0[LastPos.digits].slots) = 2
  /\ LastPos.letter \in DOMAIN last.cfg0[LastPos.digits].slots

\* The slot of a two-slot mapping other than letter.
OtherSlot(slots, letter) == CHOOSE l \in DOMAIN slots : l # letter

\* The group at key is the plain name that was at slot rem of the mapping, the
\* folder of that task lost its letter, the deleted task's folder is gone, and
\* nothing else changed in either store.
FlattenedTo(before, dirs0, after, dirs, key, letter, rem) ==
  /\ after = Put(before, key, Serial(before[key].slots[rem]))
  /\ FolderName(key, <<>>, before[key].slots[rem]) \in dirs
  /\ FolderName(key, rem, before[key].slots[rem]) \notin dirs
  /\ FolderName(key, letter, before[key].slots[letter]) \notin dirs
  /\ dirs \ {FolderName(key, <<>>, before[key].slots[rem])}
       = dirs0 \ {FolderName(key, <<>>, before[key].slots[rem]),
                  FolderName(key, rem, before[key].slots[rem]),
                  FolderName(key, letter, before[key].slots[letter])}

\* C9: a Delete of one slot of a two-slot parallel group leaves a serial group
\* at the same order with the remaining task's name, its folder renamed from
\* "{order}{letter}_{name}" to "{order}_{name}", and no other group changed.
C9_DeleteSlotFlattens ==
  SlotDeleteOfTwo =>
    FlattenedTo(last.cfg0, last.folders0, cfg, folders, LastPos.digits,
                LastPos.letter,
                OtherSlot(last.cfg0[LastPos.digits].slots, LastPos.letter))

\* A state in which C9's case happened: the slot was deleted and the remaining
\* task's lettered folder, present before, was renamed.
C9_Witness ==
  /\ SlotDeleteOfTwo
  /\ \E l \in DOMAIN last.cfg0[LastPos.digits].slots :
       /\ l # LastPos.letter
       /\ FolderName(LastPos.digits, l, last.cfg0[LastPos.digits].slots[l])
            \in last.folders0
       /\ FolderName(LastPos.digits, <<>>, last.cfg0[LastPos.digits].slots[l])
            \in folders
  /\ "flatten" \in last.asked

\* C10: when the caller declines a conversion or flattening rename (and
\* declines no write of the document), the call ends with an error and the
\* configuration document is the one found at entry.
C10_DeclinedRenameAborts ==
  (/\ "convert" \in last.declined \/ "flatten" \in last.declined
   /\ "save" \notin last.declined) =>
    /\ last.status = "error"
    /\ cfg = last.cfg0

Called == last.op \in {"insert", "delete", "move"}

\* C11: when an Insert, Delete or Move ends with an error, the configuration
\* document is the one found at entry (folders may have changed).
C11_ErrorKeepsDocument ==
  (Called /\ last.status = "error") => cfg = last.cfg0

\* A state in which C11's case happened: a call ended with an error after it
\* had already changed folders.
C11_Witness ==
  /\ Called /\ last.status = "error"
  /\ folders # last.folders0
  /\ cfg = last.cfg0

\* C12: when the caller declines every confirmation an operation raises, no
\* folder present at entry is removed, renamed or moved and the configuration
\* document is not changed.
C12_DeclineAllIsHarmless ==
  (Called /\ last.asked # {} /\ last.declined = last.asked) =>
    /\ last.folders0 \subseteq folders
    /\ cfg = last.cfg0

\* Some task of the configuration has no folder at its full position.
MissingSome(tasks_yaml, dirs) ==
  \E k \in DOMAIN tasks_yaml : \E t \in GroupTasks(tasks_yaml[k]) :
    full_position(IntOf(k), t.letter) \notin FoundPositions(dirs)

\* C13: an Insert, Delete or Move called on a project in which some configured
\* task has no folder at its full position fails with MissingFolder and leaves
\* the configuration document and the folders unchanged.
C13_ReconcileFirst ==
  (Called /\ MissingSome(last.cfg0, last.folders0)) =>
    /\ last.status = "error" /\ last.err = "MissingFolder"
    /\ cfg = last.cfg0
    /\ folders = last.folders0

\* The last call was an Insert, on a project that reconciles, of a position
\* whose order is greater than the number of groups + 1.
InsertBeyondEnd ==
  /\ last.op = "insert"
  /\ build_task_groups(last.cfg0, last.folders0).ok
  /\ LastPos.ok
  /\ IntOf(LastPos.digits)
       > Cardinality(DOMAIN build_task_groups(last.cfg0, last.folders0).groups) + 1

\* C14: an Insert whose order is greater than groupCount + 1 fails with
\* PositionOutOfRange and changes neither the configuration document nor any
\* folder.
C14_InsertOutOfRange ==
  InsertBeyondEnd =>
    /\ last.status = "error" /\ last.err = "PositionOutOfRange"
    /\ cfg = last.cfg0
    /\ folders = last.folders0

\* A state in which C14's case happened on a project that has groups: the
\* order was two or more past the last group and the Insert was rejected.
C14_Witness ==
  /\ InsertBeyondEnd
  /\ last.cfg0 # EmptyMap
  /\ last.err = "PositionOutOfRange"

\* The last call was a Move, in a consistent project of N groups, of the task
\* of a serial group to an order greater than N, every confirmation granted.
SerialMoveBeyondEnd ==
  /\ last.op = "move" /\ Granted
  /\ Consistent(last.cfg0, last.folders0)
  /\ LastPos.ok /\ LastPos.letter = <<>>
  /\ LastPos.digits \in DOMAIN last.cfg0
  /\ ~last.cfg0[LastPos.digits].dict
  /\ LastTo.ok
  /\ IntOf(LastTo.digits) > Cardinality(DOMAIN last.cfg0)

\* C15: a Move whose source is the single task of a serial group in a project
\* of N groups is checked against the N - 1 groups left after the removal:
\* a destination order greater than N is rejected with PositionOutOfRange.
C15_MoveBoundsAfterRemoval ==
  SerialMoveBeyondEnd =>
    /\ last.status = "error" /\ last.err = "PositionOutOfRange"

\* The answers of the last call, as far as it read them.
LastAnswers == [q \in Prompts |-> q \notin last.declined]

\* The name the last Move carried.
LastMoved == SourceName(last.cfg0, LastPos.digits, LastPos.letter)

LastSourceFolder == FolderName(LastPos.digits, LastPos.letter, LastMoved)

LastNewFolder == FolderName(LastTo.digits, LastTo.letter, LastMoved)

\* The folders as the last Move found them when it reached line 536: after
\* the source left the configuration and the name was placed.
FoldersAtRelocation ==
  MovePlace(MoveRemove(last.cfg0, last.folders0, LastPos.digits, LastPos.letter,
                       LastAnswers).cfg,
            MoveRemove(last.cfg0, last.folders0, LastPos.digits, LastPos.letter,
                       LastAnswers).folders,
            LastTo.digits, LastTo.letter, LastMoved, LastAnswers).folders

\* The last call was a Move that returned without error and wrote the
\* document, and when it came to relocate the folder both the source folder
\* and a different destination folder existed.
MoveOntoExistingFolder ==
  /\ last.op = "move" /\ last.status = "ok" /\ "save" \notin last.declined
  /\ LastSourceFolder # LastNewFolder
  /\ LastSourceFolder \in FoldersAtRelocation
  /\ LastNewFolder \in FoldersAtRelocation

\* C16: when the destination folder of a Move already exists, the source
\* folder stays where it is, the existing destination folder stays too, and
\* the moved name is recorded at the destination in the configuration.
C16_ExistingDestinationSkipsMove ==
  MoveOntoExistingFolder =>
    /\ LastSourceFolder \in folders
    /\ LastNewFolder \in folders
    /\ RecordedAt(cfg, LastTo.digits, LastTo.letter, LastMoved)

\* One or more digits optionally followed by one lowercase letter.
WellFormed(s) ==
  /\ PrefixLen(s, Digits) >= 1
  /\ Len(DropWhile(s, Digits)) <= 1
  /\ Range(DropWhile(s, Digits)) \subseteq Lowers

\* C17: for every well-formed position string s, parse_position(s) succeeds
\* and Task.full_position on its result gives back s.
C17_RoundTrip ==
  (last.op = "parse" /\ WellFormed(last.pos)) =>
    /\ last.status = "ok"
    /\ last.formatted = last.pos

\* The string begins with a digit and everything after the leading digits is
\* a lowercase letter.
DigitsThenLowers(s) ==
  /\ PrefixLen(s, Digits) >= 1
  /\ Range(DropWhile(s, Digits)) \subseteq Lowers

\* C18: parse_position fails with MalformedPosition on every string that does
\* not begin with a digit and on every string whose characters after the
\* leading digits are not all lowercase letters.
C18_MalformedRejected ==
  (last.op = "parse" /\ ~DigitsThenLowers(last.pos)) =>
    /\ last.status = "error"
    /\ last.err = "MalformedPosition"

\* The last call was an Insert of a serial position whose key was occupied, so
\* that shift_task_groups ran from that order on the folders found at entry.
InsertShifted ==
  /\ last.op = "insert" /\ last.status = "ok"
  /\ LastPos.letter = <<>>
  /\ LastPos.digits \in DOMAIN last.cfg0

\* The folders the last Insert renamed, in the order it renamed them.
LastRenamed == sorted_folders(last.folders0, IntOf(LastPos.digits))

\* The i-th rename targets a name held by a folder that is renamed later.
TargetsWaiting(seq, i) ==
  \E j \in (i + 1)..Len(seq) : seq[j] = NewFolder(MatchFolder(seq[i]))

\* C19: during a +1 shift no rename targets a name held by a folder that is
\* still waiting to be renamed (the folders go highest order first), for any
\* number of groups and for tasks of different orders with the same name.
C19_ShiftNeverCollides ==
  InsertShifted => \A i \in DOMAIN LastRenamed : ~TargetsWaiting(LastRenamed, i)

\* C20: when an Insert, Delete or Move is killed after a folder rename and
\* before it writes the document, or partway through a shift, the next
\* build_task_groups on the stores left behind fails.
C20_InterruptionIsCaught ==
  last.status = "interrupted" => ~build_task_groups(cfg, folders).ok

\* The last call was a Move that returned without error, every confirmation
\* granted, in a consistent project, from another order to a slot letter of an
\* order that held a serial task.
MoveOntoSerialWithLetter ==
  /\ last.op = "move" /\ last.status = "ok" /\ Granted
  /\ Consistent(last.cfg0, last.folders0)
  /\ LastTo.letter # <<>>
  /\ LastTo.digits \in DOMAIN last.cfg0
  /\ ~last.cfg0[LastTo.digits].dict
  /\ LastPos.digits # LastTo.digits

\* C22: such a Move relabels the task that was at the order onto slot b, in
\* the configuration and in its folder name, as Insert does, and the group
\* then holds both that task and the moved one.
C22_MoveConvertsToSlotB ==
  MoveOntoSerialWithLetter =>
    /\ cfg[LastTo.digits].dict
    /\ <<"b">> \in DOMAIN cfg[LastTo.digits].slots
    /\ cfg[LastTo.digits].slots[<<"b">>] = last.cfg0[LastTo.digits].name
    /\ FolderName(LastTo.digits, <<"b">>, last.cfg0[LastTo.digits].name) \in folders
    /\ RecordedAt(cfg, LastTo.digits, LastTo.letter, LastMoved)
    /\ Cardinality(DOMAIN cfg[LastTo.digits].slots) = 2

\* The last call was a Delete, every confirmation granted, on a project that
\* reconciles, of the only slot of a mapping with exactly one slot.
DeleteOfOnlySlot ==
  /\ last.op = "delete" /\ Granted
  /\ build_task_groups(last.cfg0, last.folders0).ok
  /\ LastPos.ok
  /\ LastPos.digits \in DOMAIN last.cfg0
  /\ last.cfg0[LastPos.digits].dict
  /\ DOMAIN last.cfg0[LastPos.digits].slots = {LastPos.letter}

\* C23: a Delete of the only slot of a one-slot parallel group fails with
\* InvalidGroupKind and commits no configuration in which a group has no
\* task.
C23_OnlySlotDeleteRejected ==
  DeleteOfOnlySlot =>
    /\ last.status = "error" /\ last.err = "InvalidGroupKind"
    /\ \A k \in DOMAIN cfg : GroupTasks(cfg[k]) # {}

\* The number of tasks of a configuration that carry the name.
NameCount(tasks_yaml, name) ==
  Cardinality({t \in AllTasks(tasks_yaml) : t.name = name})

\* C24: after an Insert that returned without error (every confirmation
\* granted) the configuration holds every task name as often as at entry and
\* the new name once more; after such a Move it holds every name as often as
\* at entry.
C24_NoTaskDropped ==
  /\ (last.op = "insert" /\ last.status = "ok" /\ Granted) =>
       \A n \in Names :
         NameCount(cfg, n)
           = NameCount(last.cfg0, n) + (IF n = last.name THEN 1 ELSE 0)
  /\ (last.op = "move" /\ last.status = "ok" /\ Granted) =>
       \A n \in Names : NameCount(cfg, n) = NameCount(last.cfg0, n)

\* The destructive steps and backups of the last call, in order.
LastLog ==
  IF last.op = "insert"
    THEN add_task_log(last.cfg0, last.folders0, last.pos, last.name, LastAnswers)
  ELSE IF last.op = "delete"
    THEN delete_task_log(last.cfg0, last.folders0, last.pos, LastAnswers)
  ELSE move_task_log(last.cfg0, last.folders0, last.pos, last.to, LastAnswers)

\* Every removal, rename, relocation or overwrite in the log comes after a
\* backup of the same path.
BackedUpFirst(log) ==
  \A i \in DOMAIN log :
    log[i].kind # "backup" =>
      \E j \in 1..(i - 1) : log[j] = Ev("backup", log[i].path)

\* C21: every folder removal, folder rename or relocation and every overwrite
\* of an existing file (Mo.yaml included) that an Insert, Delete or Move
\* performed was preceded, in the same call, by a backup of that path.
C21_BackupBeforeDestruction ==
  (Called /\ last.status \in {"ok", "error"}) => BackedUpFirst(LastLog)

====
